---- MODULE Spec2Model ----
(***************************************************************************)
(* A* grid pathfinding (python4.py).  The model follows the source: the    *)
(* grid globals (GRID_SIZE, obstacles, start, end, path), the Node         *)
(* objects, the heapq-ordered frontier, the closed set, the predecessor    *)
(* map and path reconstruction.  One search is run one loop iteration per  *)
(* step, so that properties of the loop itself can be stated (Spec,        *)
(* FairSpec); the main loop's event handlers are the actions of MainSpec,  *)
(* where a call of astar runs to its return inside the SPACE handler.      *)
(*                                                                         *)
(* Python lists are 0-based, TLA+ sequences 1-based: heap position p of    *)
(* the source is position p+1 here (parent of q is q \div 2, children of q *)
(* are 2q and 2q+1).  A Node object is its index in the sequence `nodes`   *)
(* (objects are identified by creation order); parent = 0 is None.         *)
(***************************************************************************)
EXTENDS Integers, Sequences, FiniteSets, TLC

VARIABLES
    GRID_SIZE,   \* grid dimension (python4.py:9)
    obstacles,   \* set of blocked coordinates (python4.py:29)
    start,       \* start coordinate (python4.py:30)
    end,         \* end coordinate (python4.py:31)
    path,        \* result of the last astar call as stored by the caller (python4.py:142,170)
    pc,          \* "idle": no search active; "loop": inside astar's while loop
    open_set,    \* the heap list of astar (sequence of Node ids)
    closed_set,  \* set of coordinates
    came_from,   \* function coordinate -> Node id
    nodes,       \* every Node created by the running call, in creation order
    astar_start, \* parameter start of the running astar call
    astar_end,   \* parameter end of the running astar call
    popped,      \* history: Node ids popped by the running call, in order
    calls,       \* history: number of astar calls that have returned, counted up to 2
    event        \* history: the branch of the main loop that handled the last event
                 \* ("none", "click", "search", "no_points", "reset")

grid == <<GRID_SIZE, obstacles, start, end>>
search == <<open_set, closed_set, came_from, nodes, astar_start, astar_end, popped>>
vars == <<GRID_SIZE, obstacles, start, end, path, pc, open_set, closed_set,
          came_from, nodes, astar_start, astar_end, popped, calls, event>>

----------------------------------------------------------------------------
(* Bounds of the explored inputs *)

MaxGridSize == 3
MaxObstacles == 1

\* The event loop is explored on windows of up to MaxWindowSize cells a side
\* with up to MaxPainted obstacles
MaxWindowSize == 2
MaxPainted == 2

----------------------------------------------------------------------------
(* Values *)

\* Pixels per cell (python4.py:10)
CELL_SIZE == 20

\* Python's None for start and end
NoPoint == <<>>

\* Python's None for a path, and a returned list of coordinates.
None == [found |-> FALSE, coords |-> <<>>]
Some(p) == [found |-> TRUE, coords |-> p]

Abs(n) == IF n < 0 THEN -n ELSE n

CountUpTo2(n) == IF n < 2 THEN n + 1 ELSE n

Cells(gs) == (0 .. gs - 1) \X (0 .. gs - 1)

Range(s) == {s[i] : i \in DOMAIN s}

Reverse(s) == [i \in 1 .. Len(s) |-> s[Len(s) + 1 - i]]

\* Faulty variant of DIRECTIONS: the (0, 1) direction is missing
DIRECTIONS_three == << <<-1, 0>>, <<1, 0>>, <<0, -1>> >>

DIRECTIONS == << <<-1, 0>>, <<1, 0>>, <<0, -1>>, <<0, 1>> >>

\* Faulty variant of Node: the priority leaves out the cost so far
Node_greedy(x, y, g, h, parent) ==
    [x |-> x, y |-> y, g |-> g, h |-> h, f |-> h, parent |-> parent]

Node(x, y, g, h, parent) ==
    [x |-> x, y |-> y, g |-> g, h |-> h, f |-> g + h, parent |-> parent]

\* Faulty variant of NodeLt: the comparison is the wrong way round
NodeLt_reversed(a, b) == a.f > b.f

\* Node.__lt__
NodeLt(a, b) == a.f < b.f

Pos(n) == <<n.x, n.y>>

\* Faulty variant of heuristic: the larger of the two offsets, not their sum
heuristic_chebyshev(a, b) ==
    IF Abs(a[1] - b[1]) > Abs(a[2] - b[2])
    THEN Abs(a[1] - b[1])
    ELSE Abs(a[2] - b[2])

\* Faulty variant of heuristic: twice the Manhattan distance
heuristic_double(a, b) == 2 * (Abs(a[1] - b[1]) + Abs(a[2] - b[2]))

heuristic(a, b) == Abs(a[1] - b[1]) + Abs(a[2] - b[2])

RECURSIVE NeighborsFrom(_, _)
NeighborsFrom(node, i) ==
    IF i > Len(DIRECTIONS) THEN <<>>
    ELSE LET nx == node.x + DIRECTIONS[i][1]
             ny == node.y + DIRECTIONS[i][2]
             rest == NeighborsFrom(node, i + 1)
         IN  IF /\ 0 <= nx /\ nx < GRID_SIZE
                /\ 0 <= ny /\ ny < GRID_SIZE
                /\ <<nx, ny>> \notin obstacles
             THEN <<(<<nx, ny>>)>> \o rest
             ELSE rest

\* Faulty variant of get_neighbors: obstacles are not looked at
RECURSIVE NeighborsFrom_blocked(_, _)
NeighborsFrom_blocked(node, i) ==
    IF i > Len(DIRECTIONS) THEN <<>>
    ELSE LET nx == node.x + DIRECTIONS[i][1]
             ny == node.y + DIRECTIONS[i][2]
             rest == NeighborsFrom_blocked(node, i + 1)
         IN  IF /\ 0 <= nx /\ nx < GRID_SIZE
                /\ 0 <= ny /\ ny < GRID_SIZE
             THEN <<(<<nx, ny>>)>> \o rest
             ELSE rest

get_neighbors_blocked(node) == NeighborsFrom_blocked(node, 1)

\* Faulty variant of get_neighbors: the upper bound is off by one
RECURSIVE NeighborsFrom_short(_, _)
NeighborsFrom_short(node, i) ==
    IF i > Len(DIRECTIONS) THEN <<>>
    ELSE LET nx == node.x + DIRECTIONS[i][1]
             ny == node.y + DIRECTIONS[i][2]
             rest == NeighborsFrom_short(node, i + 1)
         IN  IF /\ 0 <= nx /\ nx < GRID_SIZE - 1
                /\ 0 <= ny /\ ny < GRID_SIZE - 1
                /\ <<nx, ny>> \notin obstacles
             THEN <<(<<nx, ny>>)>> \o rest
             ELSE rest

get_neighbors_short(node) == NeighborsFrom_short(node, 1)

get_neighbors(node) == NeighborsFrom(node, 1)

----------------------------------------------------------------------------
(* heapq on a list of Node ids; ns is the sequence of Node objects.        *)
(* A loop of the source is a recursive operator.  Where an operator is     *)
(* applied to a computed list, the list is first bound as the element of a *)
(* one-element set, CHOOSE r \in {F(h) : h \in {e}} : TRUE, which is F(e)   *)
(* with e evaluated once.                                                  *)

RECURSIVE SiftDownFrom(_, _, _, _, _)
SiftDownFrom(ns, heap, newitem, startpos, pos) ==
    IF pos > startpos /\ NodeLt(ns[newitem], ns[heap[pos \div 2]])
    THEN CHOOSE r \in {SiftDownFrom(ns, h, newitem, startpos, p) :
                          h \in {[heap EXCEPT ![pos] = heap[pos \div 2]]},
                          p \in {pos \div 2}} : TRUE
    ELSE [heap EXCEPT ![pos] = newitem]

\* heapq._siftdown(heap, startpos, pos)
siftdown(ns, heap, startpos, pos) ==
    CHOOSE r \in {SiftDownFrom(ns, heap, newitem, startpos, pos) :
                      newitem \in {heap[pos]}} : TRUE

RECURSIVE SiftUpFrom(_, _, _, _, _)
SiftUpFrom(ns, heap, newitem, startpos, pos) ==
    LET endpos == Len(heap)
        childpos == 2 * pos
        rightpos == childpos + 1
        smaller == IF /\ rightpos <= endpos
                      /\ ~NodeLt(ns[heap[childpos]], ns[heap[rightpos]])
                   THEN rightpos ELSE childpos
    IN  IF childpos <= endpos
        THEN CHOOSE r \in {SiftUpFrom(ns, h, newitem, startpos, p) :
                              h \in {[heap EXCEPT ![pos] = heap[smaller]]},
                              p \in {smaller}} : TRUE
        ELSE CHOOSE r \in {siftdown(ns, h, startpos, pos) :
                              h \in {[heap EXCEPT ![pos] = newitem]}} : TRUE

\* heapq._siftup(heap, pos)
siftup(ns, heap, pos) ==
    CHOOSE r \in {SiftUpFrom(ns, heap, newitem, pos, pos) :
                      newitem \in {heap[pos]}} : TRUE

\* Faulty variant of heappush: the item is appended and not sifted
heappush_append(ns, heap, item) == Append(heap, item)

\* heapq.heappush(heap, item): the heap afterwards
heappush(ns, heap, item) ==
    CHOOSE r \in {siftdown(ns, h, 1, Len(h)) : h \in {Append(heap, item)}} : TRUE

\* heapq.heappop(heap): the item returned
heappop_item(heap) == heap[1]

\* heapq.heappop(heap): the heap afterwards
heappop_heap(ns, heap) ==
    LET lastelt == heap[Len(heap)]
        rest == SubSeq(heap, 1, Len(heap) - 1)
    IN  IF rest # <<>>
        THEN CHOOSE r \in {siftup(ns, h, 1) :
                              h \in {[rest EXCEPT ![1] = lastelt]}} : TRUE
        ELSE rest

----------------------------------------------------------------------------
(* astar *)

RECURSIVE WalkParents(_, _)
WalkParents(ns, current) ==
    IF current = 0 THEN <<>>
    ELSE <<Pos(ns[current])>> \o WalkParents(ns, ns[current].parent)

\* Faulty variant of reconstruct_path: the list is not reversed
reconstruct_path_unreversed(ns, cf, current) == WalkParents(ns, current)

\* reconstruct_path(came_from, current), current a Node id
reconstruct_path(ns, cf, current) == Reverse(WalkParents(ns, current))

\* came_from[neighbor] = current
SetItem(cf, key, val) ==
    [k \in DOMAIN cf \cup {key} |-> IF k = key THEN val ELSE cf[k]]

\* Faulty variant of PushNeighbors: closed neighbours are pushed as well
RECURSIVE PushNeighbors_reopen(_, _, _, _, _, _)
PushNeighbors_reopen(s, closed, goal, current, nbrs, i) ==
    IF i > Len(nbrs) THEN s
    ELSE LET neighbor == nbrs[i]
             new_node == Node(neighbor[1], neighbor[2],
                              s.nodes[current].g + 1,
                              heuristic(neighbor, goal), current)
         IN  CHOOSE r \in
                 {PushNeighbors_reopen(s2, closed, goal, current, nbrs, i + 1) :
                     s2 \in {[nodes |-> ns,
                              open_set |-> heappush(ns, s.open_set, Len(ns)),
                              came_from |-> SetItem(s.came_from, neighbor, current)] :
                             ns \in {Append(s.nodes, new_node)}}} :
                 TRUE

\* The for loop of astar over get_neighbors(current), from its i-th element;
\* s is the record of the locals open_set, came_from, nodes; goal is end.
RECURSIVE PushNeighbors(_, _, _, _, _, _)
PushNeighbors(s, closed, goal, current, nbrs, i) ==
    IF i > Len(nbrs) THEN s
    ELSE IF nbrs[i] \in closed
         THEN PushNeighbors(s, closed, goal, current, nbrs, i + 1)
         ELSE LET neighbor == nbrs[i]
                  new_node == Node(neighbor[1], neighbor[2],
                                   s.nodes[current].g + 1,
                                   heuristic(neighbor, goal), current)
              IN  CHOOSE r \in
                      {PushNeighbors(s2, closed, goal, current, nbrs, i + 1) :
                          s2 \in {[nodes |-> ns,
                                   open_set |-> heappush(ns, s.open_set, Len(ns)),
                                   came_from |-> SetItem(s.came_from, neighbor, current)] :
                                  ns \in {Append(s.nodes, new_node)}}} :
                      TRUE

\* The caller calls astar(start, end) with the globals (line 170);
\* astar lines 65-68: the frontier holds the start node
Call ==
    /\ pc = "idle"
    /\ astar_start' = start
    /\ astar_end' = end
    /\ LET ns == <<Node(start[1], start[2], 0, heuristic(start, end), 0)>>
       IN  /\ nodes' = ns
           /\ open_set' = heappush(ns, <<>>, 1)
    /\ closed_set' = {}
    /\ came_from' = <<>>
    /\ popped' = <<>>
    /\ pc' = "loop"
    /\ UNCHANGED <<grid, path, calls, event>>

\* Faulty variant of ReturnPath: the goal test comes after the expansion
ReturnPath_late ==
    /\ pc = "loop"
    /\ open_set # <<>>
    /\ LET current == heappop_item(open_set)
           closed == closed_set \cup {Pos(nodes[current])}
           s == PushNeighbors(
                    [nodes |-> nodes,
                     open_set |-> heappop_heap(nodes, open_set),
                     came_from |-> came_from],
                    closed, astar_end, current, get_neighbors(nodes[current]), 1)
       IN  /\ Pos(nodes[current]) = astar_end
           /\ closed_set' = closed
           /\ nodes' = s.nodes
           /\ open_set' = s.open_set
           /\ came_from' = s.came_from
           /\ popped' = Append(popped, current)
           /\ path' = Some(reconstruct_path(nodes, came_from, current))
    /\ pc' = "idle"
    /\ calls' = CountUpTo2(calls)
    /\ UNCHANGED <<grid, astar_start, astar_end, event>>

\* One iteration of the while loop that pops the goal: lines 71-74
ReturnPath ==
    /\ pc = "loop"
    /\ open_set # <<>>
    /\ LET current == heappop_item(open_set)
       IN  /\ Pos(nodes[current]) = astar_end
           /\ open_set' = heappop_heap(nodes, open_set)
           /\ popped' = Append(popped, current)
           /\ path' = Some(reconstruct_path(nodes, came_from, current))
    /\ pc' = "idle"
    /\ calls' = CountUpTo2(calls)
    /\ UNCHANGED <<grid, closed_set, came_from, nodes, astar_start, astar_end, event>>

\* Faulty variant of Expand: any frontier node of least f may be the one popped
Expand_anytie ==
    /\ pc = "loop"
    /\ open_set # <<>>
    /\ Pos(nodes[heappop_item(open_set)]) # astar_end
    /\ \E i \in DOMAIN open_set :
          /\ nodes[open_set[i]].f = nodes[open_set[1]].f
          /\ Pos(nodes[open_set[i]]) # astar_end
          /\ LET current == open_set[i]
                 swapped == [open_set EXCEPT ![i] = open_set[1], ![1] = current]
                 closed == closed_set \cup {Pos(nodes[current])}
                 s == PushNeighbors(
                          [nodes |-> nodes,
                           open_set |-> heappop_heap(nodes, swapped),
                           came_from |-> came_from],
                          closed, astar_end, current, get_neighbors(nodes[current]), 1)
             IN  /\ closed_set' = closed
                 /\ nodes' = s.nodes
                 /\ open_set' = s.open_set
                 /\ came_from' = s.came_from
                 /\ popped' = Append(popped, current)
    /\ UNCHANGED <<grid, path, pc, astar_start, astar_end, calls, event>>

\* One iteration of the while loop that expands a node: lines 71-84
Expand ==
    /\ pc = "loop"
    /\ open_set # <<>>
    /\ \E current \in {heappop_item(open_set)} :
       \E closed \in {closed_set \cup {Pos(nodes[current])}} :
       \E nbrs \in {get_neighbors(nodes[current])} :
       \E s \in {PushNeighbors(
                     [nodes |-> nodes,
                      open_set |-> heappop_heap(nodes, open_set),
                      came_from |-> came_from],
                     closed, astar_end, current, nbrs, 1)} :
           /\ Pos(nodes[current]) # astar_end
           /\ closed_set' = closed
           /\ nodes' = s.nodes
           /\ open_set' = s.open_set
           /\ came_from' = s.came_from
           /\ popped' = Append(popped, current)
    /\ UNCHANGED <<grid, path, pc, astar_start, astar_end, calls, event>>

\* Faulty variant of ReturnNone: the grid is reset inside astar
ReturnNone_reset ==
    /\ pc = "loop"
    /\ open_set = <<>>
    /\ path' = None
    /\ pc' = "idle"
    /\ calls' = CountUpTo2(calls)
    /\ start' = <<>>
    /\ end' = <<>>
    /\ obstacles' = {}
    /\ UNCHANGED <<GRID_SIZE, search, event>>

\* Faulty variant of ReturnNone: the loop does not stop on an empty frontier
ReturnNone_spin ==
    /\ pc = "loop"
    /\ open_set = <<>>
    /\ UNCHANGED vars

\* The loop ends with an empty frontier: lines 70, 86-87
ReturnNone ==
    /\ pc = "loop"
    /\ open_set = <<>>
    /\ path' = None
    /\ pc' = "idle"
    /\ calls' = CountUpTo2(calls)
    /\ UNCHANGED <<grid, search, event>>

----------------------------------------------------------------------------
(* Inputs: the grid the caller has set up before it calls astar *)

\* Every grid up to MaxGridSize with up to MaxObstacles obstacles
SmallGrid ==
    /\ GRID_SIZE \in 1 .. MaxGridSize
    /\ obstacles \in {o \in SUBSET Cells(GRID_SIZE) : Cardinality(o) <= MaxObstacles}
    /\ start \in Cells(GRID_SIZE) \ obstacles
    /\ end \in Cells(GRID_SIZE) \ obstacles

\* 5x5 grid without obstacles, (0,0) to (4,4)
OpenGrid5 ==
    /\ GRID_SIZE = 5
    /\ obstacles = {}
    /\ start = <<0, 0>>
    /\ end = <<4, 4>>

\* 5x5 grid with the wall x = 2, y = 0..3, (0,0) to (4,0)
WallGrid5 ==
    /\ GRID_SIZE = 5
    /\ obstacles = {<<2, 0>>, <<2, 1>>, <<2, 2>>, <<2, 3>>}
    /\ start = <<0, 0>>
    /\ end = <<4, 0>>

\* Every 3x3 grid: any obstacle set, any unblocked start and end
AnyGrid3 ==
    /\ GRID_SIZE = 3
    /\ obstacles \in SUBSET Cells(3)
    /\ start \in Cells(3) \ obstacles
    /\ end \in Cells(3) \ obstacles

\* 4x4 grid with a bar of two obstacles, any unblocked start and end: going
\* round the bar the cell nearest to the end is not always on a shortest path
BarGrid4 ==
    /\ GRID_SIZE = 4
    /\ obstacles = {<<1, 1>>, <<2, 1>>}
    /\ start \in Cells(4) \ obstacles
    /\ end \in Cells(4) \ obstacles

\* 6x6 grid whose corner (0,0) is the end and is cut off by two obstacles,
\* start next to them: the whole grid is searched before None is returned
IsolatedEnd6 ==
    /\ GRID_SIZE = 6
    /\ obstacles = {<<0, 1>>, <<1, 0>>}
    /\ start = <<1, 1>>
    /\ end = <<0, 0>>

\* Every grid up to MaxGridSize with up to MaxObstacles obstacles and the
\* start in the corner (0,0)
CornerGrid ==
    /\ GRID_SIZE \in 1 .. MaxGridSize
    /\ start = <<0, 0>>
    /\ obstacles \in {o \in SUBSET (Cells(GRID_SIZE) \ {start}) :
                         Cardinality(o) <= MaxObstacles}
    /\ end \in Cells(GRID_SIZE) \ obstacles

\* No astar call has been made
NoCall ==
    /\ path = None
    /\ pc = "idle"
    /\ open_set = <<>>
    /\ closed_set = {}
    /\ came_from = <<>>
    /\ nodes = <<>>
    /\ astar_start = <<>>
    /\ astar_end = <<>>
    /\ popped = <<>>
    /\ calls = 0
    /\ event = "none"

Init ==
    /\ SmallGrid \/ AnyGrid3 \/ BarGrid4 \/ OpenGrid5 \/ WallGrid5 \/ IsolatedEnd6
    /\ NoCall

Next == Call \/ ReturnPath \/ Expand \/ ReturnNone

Spec == Init /\ [][Next]_vars

\* astar is straight-line sequential code with no suspension point: an
\* iteration of its loop that can be taken is taken.  (When the caller calls
\* astar is up to the caller.)
LoopStep == ReturnPath \/ Expand \/ ReturnNone

FairInit ==
    /\ CornerGrid \/ AnyGrid3 \/ BarGrid4 \/ OpenGrid5 \/ WallGrid5
    /\ NoCall

FairSpec == FairInit /\ [][Next]_vars /\ WF_vars(LoopStep)

----------------------------------------------------------------------------
(* The main loop (lines 140-179): one action per handled event.  A call of *)
(* astar runs to its return inside the SPACE handler.                      *)

\* astar's while loop run to its return; s holds the locals nodes, open_set,
\* came_from and closed_set, goal is end (lines 70-87)
RECURSIVE astar_loop(_, _)
astar_loop(s, goal) ==
    IF s.open_set = <<>> THEN None
    ELSE LET current == heappop_item(s.open_set)
             closed == s.closed_set \cup {Pos(s.nodes[current])}
         IN  IF Pos(s.nodes[current]) = goal
             THEN Some(reconstruct_path(s.nodes, s.came_from, current))
             ELSE CHOOSE r \in
                      {astar_loop([nodes |-> p.nodes,
                                   open_set |-> p.open_set,
                                   came_from |-> p.came_from,
                                   closed_set |-> closed], goal) :
                          p \in {PushNeighbors(
                                     [nodes |-> s.nodes,
                                      open_set |-> heappop_heap(s.nodes, s.open_set),
                                      came_from |-> s.came_from],
                                     closed, goal, current,
                                     get_neighbors(s.nodes[current]), 1)}} :
                      TRUE

\* astar(start, end): None or the returned path (lines 63-87)
astar(st, en) ==
    LET ns == <<Node(st[1], st[2], 0, heuristic(st, en), 0)>>
    IN  astar_loop([nodes |-> ns,
                    open_set |-> heappush(ns, <<>>, 1),
                    came_from |-> <<>>,
                    closed_set |-> {}], en)

\* SCREEN_SIZE (line 11)
SCREEN_SIZE == GRID_SIZE * CELL_SIZE

\* Values of event.pos inside the window (0 .. SCREEN_SIZE - 1 on both axes):
\* the top left and the bottom right pixel of every cell
ClickPositions ==
    {<<cx * CELL_SIZE + o, cy * CELL_SIZE + o>> :
        cx \in 0 .. GRID_SIZE - 1, cy \in 0 .. GRID_SIZE - 1,
        o \in {0, CELL_SIZE - 1}}

\* grid_x, grid_y of a click at pos (line 153)
GridCell(pos) == <<pos[1] \div CELL_SIZE, pos[2] \div CELL_SIZE>>

\* Faulty variant of reset_game: the obstacles are kept
reset_game_keep ==
    /\ start' = NoPoint
    /\ end' = NoPoint
    /\ UNCHANGED obstacles

\* reset_game() (lines 99-104)
reset_game ==
    /\ start' = NoPoint
    /\ end' = NoPoint
    /\ obstacles' = {}

\* MOUSEBUTTONDOWN, button 1 (lines 155-157)
LeftClick ==
    /\ pc = "idle"
    /\ \E pos \in ClickPositions :
           start' = IF GridCell(pos) \notin obstacles /\ GridCell(pos) # end
                    THEN GridCell(pos)
                    ELSE start
    /\ event' = "click"
    /\ UNCHANGED <<GRID_SIZE, obstacles, end, path, pc, search, calls>>

\* MOUSEBUTTONDOWN, button 3 (lines 159-161)
RightClick ==
    /\ pc = "idle"
    /\ \E pos \in ClickPositions :
           end' = IF GridCell(pos) \notin obstacles /\ GridCell(pos) # start
                  THEN GridCell(pos)
                  ELSE end
    /\ event' = "click"
    /\ UNCHANGED <<GRID_SIZE, obstacles, start, path, pc, search, calls>>

\* Faulty variant of MiddleClick: the start and end cells are not spared
MiddleClick_anywhere ==
    /\ pc = "idle"
    /\ \E pos \in ClickPositions :
           /\ Cardinality(obstacles \cup {GridCell(pos)}) <= MaxPainted
           /\ obstacles' = obstacles \cup {GridCell(pos)}
    /\ event' = "click"
    /\ UNCHANGED <<GRID_SIZE, start, end, path, pc, search, calls>>

\* MOUSEBUTTONDOWN, button 2 (lines 163-165); explored up to MaxPainted
\* obstacles
MiddleClick ==
    /\ pc = "idle"
    /\ \E pos \in ClickPositions :
           /\ Cardinality(obstacles \cup {GridCell(pos)}) <= MaxPainted
           /\ obstacles' = IF GridCell(pos) # start /\ GridCell(pos) # end
                           THEN obstacles \cup {GridCell(pos)}
                           ELSE obstacles
    /\ event' = "click"
    /\ UNCHANGED <<GRID_SIZE, start, end, path, pc, search, calls>>

\* KEYDOWN, K_SPACE (lines 168-175)
Space ==
    /\ pc = "idle"
    /\ IF start # NoPoint /\ end # NoPoint
       THEN \E r \in {astar(start, end)} :
                /\ path' = r
                /\ IF r = None
                   THEN reset_game
                   ELSE UNCHANGED <<start, end, obstacles>>
                /\ event' = "search"
       ELSE /\ event' = "no_points"
            /\ UNCHANGED <<start, end, obstacles, path>>
    /\ UNCHANGED <<GRID_SIZE, pc, search, calls>>

\* KEYDOWN, K_r (lines 177-179)
KeyR ==
    /\ pc = "idle"
    /\ reset_game
    /\ path' = None
    /\ event' = "reset"
    /\ UNCHANGED <<GRID_SIZE, pc, search, calls>>

\* The globals when the main loop starts (lines 29-31, 142), on a window of
\* up to MaxWindowSize cells a side
MainInit ==
    /\ GRID_SIZE \in 1 .. MaxWindowSize
    /\ obstacles = {}
    /\ start = NoPoint
    /\ end = NoPoint
    /\ NoCall

MainNext == LeftClick \/ RightClick \/ MiddleClick \/ Space \/ KeyR

MainSpec == MainInit /\ [][MainNext]_vars

----------------------------------------------------------------------------
(* Reference notions the properties are stated with *)

Manhattan(a, b) == Abs(a[1] - b[1]) + Abs(a[2] - b[2])

OrthoStep(a, b) ==
    \/ a[1] = b[1] /\ Abs(a[2] - b[2]) = 1
    \/ a[2] = b[2] /\ Abs(a[1] - b[1]) = 1

FreeCells == Cells(GRID_SIZE) \ obstacles

\* Breadth-first distance from the cells of `frontier` (at distance d) to goal
\* through free cells; -1 when goal cannot be reached
RECURSIVE BfsDist(_, _, _, _)
BfsDist(frontier, seen, goal, d) ==
    IF goal \in frontier THEN d
    ELSE IF frontier = {} THEN -1
    ELSE LET nxt == {c \in FreeCells \ seen : \E b \in frontier : OrthoStep(b, c)}
         IN  BfsDist(nxt, seen \cup nxt, goal, d + 1)

Distance(a, b) == BfsDist({a}, {a}, b, 0)

\* An astar call has returned and no other is running; path is its result
Returned == pc = "idle" /\ calls >= 1

Last(s) == s[Len(s)]

\* Some coordinate has more than one Node
Duplicates == \E i, j \in DOMAIN nodes : i < j /\ Pos(nodes[i]) = Pos(nodes[j])

----------------------------------------------------------------------------
(* Properties *)

\* C1: a path returned by astar begins at the start it was called with and
\* ends at the end it was called with; it is never a prefix or partial route.
C1_PathEnds ==
    (Returned /\ path.found) =>
        /\ Len(path.coords) >= 1
        /\ path.coords[1] = astar_start
        /\ Last(path.coords) = astar_end

\* A path of several coordinates has been returned
C1_Witness == Returned /\ path.found /\ Len(path.coords) >= 4

\* C2: in a returned path consecutive coordinates differ by exactly one
\* orthogonal step, and every coordinate is inside the grid and not an obstacle.
C2_PathSteps ==
    (Returned /\ path.found) =>
        /\ \A i \in 1 .. Len(path.coords) - 1 :
              OrthoStep(path.coords[i], path.coords[i + 1])
        /\ \A i \in DOMAIN path.coords :
              /\ path.coords[i] \in Cells(GRID_SIZE)
              /\ path.coords[i] \notin obstacles

\* A returned path that turns a corner on a grid with obstacles
C2_Witness ==
    /\ Returned /\ path.found /\ obstacles # {}
    /\ \E i \in 1 .. Len(path.coords) - 2 :
          /\ path.coords[i][1] # path.coords[i + 2][1]
          /\ path.coords[i][2] # path.coords[i + 2][2]

\* C3: a returned path is a shortest path: its number of moves is the
\* breadth-first distance from start to end through free cells.
C3_Shortest ==
    (Returned /\ path.found) =>
        Len(path.coords) - 1 = Distance(astar_start, astar_end)

\* 3x3 grid, centre blocked, (0,0) to (2,2): 5 coordinates, and the search
\* created more than one Node for some coordinate
C3_Witness ==
    /\ Returned /\ path.found
    /\ GRID_SIZE = 3 /\ obstacles = {<<1, 1>>}
    /\ astar_start = <<0, 0>> /\ astar_end = <<2, 2>>
    /\ Len(path.coords) = 5
    /\ Duplicates

\* C4: without obstacles astar returns a path of Manhattan(start, end) + 1
\* coordinates, each step of which brings the end one closer.
C4_OpenGrid ==
    (Returned /\ obstacles = {}) =>
        /\ path.found
        /\ Len(path.coords) = Manhattan(astar_start, astar_end) + 1
        /\ \A i \in 1 .. Len(path.coords) - 1 :
              Manhattan(path.coords[i + 1], astar_end)
                  = Manhattan(path.coords[i], astar_end) - 1

\* 5x5 grid without obstacles, (0,0) to (4,4): 9 coordinates
C4_Witness ==
    /\ Returned /\ obstacles = {} /\ GRID_SIZE = 5
    /\ astar_start = <<0, 0>> /\ astar_end = <<4, 4>>
    /\ path.found /\ Len(path.coords) = 9

\* C5: astar returns None exactly when end cannot be reached from start by
\* orthogonal moves through free cells.
C5_NoneIffUnreachable ==
    Returned => (path.found <=> Distance(astar_start, astar_end) >= 0)

\* None was returned for an end whose four neighbours are all obstacles
C5_Witness ==
    /\ Returned /\ ~path.found /\ astar_start # astar_end
    /\ \A i \in DOMAIN DIRECTIONS :
          <<astar_end[1] + DIRECTIONS[i][1], astar_end[2] + DIRECTIONS[i][2]>>
              \in obstacles

\* C6: the search loop terminates: a running astar call eventually returns.
C6_Terminates == (pc = "loop") ~> (pc = "idle")

\* A call that created more than one Node for some coordinate has returned
C6_Witness == Returned /\ Duplicates /\ Len(popped) >= 4

\* C7: called with start equal to end, astar returns the one-coordinate path
\* [start] after a single pop, without closing or creating any other Node.
C7_StartIsEnd ==
    (Returned /\ astar_start = astar_end) =>
        /\ path = Some(<<astar_start>>)
        /\ popped = <<1>>
        /\ Len(nodes) = 1
        /\ closed_set = {}

\* astar has returned for start = end on a grid with obstacles
C7_Witness ==
    Returned /\ astar_start = astar_end /\ obstacles # {} /\ path.found

\* C8: no step of an astar call, from the call to the return, changes the
\* grid: GRID_SIZE, obstacles, start and end stay as they are.
C8_GridUnchanged ==
    [][(pc = "loop" \/ pc' = "loop") => UNCHANGED grid]_vars

\* astar has returned None on a grid with obstacles
C8_Witness == Returned /\ ~path.found /\ obstacles # {} /\ Len(popped) >= 2

FrontierTie ==
    \E i, j \in DOMAIN open_set :
        i < j /\ nodes[open_set[i]].f = nodes[open_set[j]].f

C10_WallDetour ==
    ( /\ Returned
      /\ GRID_SIZE = 5
      /\ obstacles = {<<2, 0>>, <<2, 1>>, <<2, 2>>, <<2, 3>>}
      /\ astar_start = <<0, 0>> /\ astar_end = <<4, 0>> ) =>
        /\ path.found
        /\ <<2, 4>> \in Range(path.coords)

\* The call on the wall grid has returned a path
C10_Witness ==
    /\ Returned
    /\ GRID_SIZE = 5
    /\ obstacles = {<<2, 0>>, <<2, 1>>, <<2, 2>>, <<2, 3>>}
    /\ astar_start = <<0, 0>> /\ astar_end = <<4, 0>>
    /\ path.found /\ Len(path.coords) >= 13

\* C11: within one astar call no coordinate is expanded twice: a popped node
\* whose coordinate is already closed is skipped, so no two pops of a call are
\* for the same coordinate.
C11_ExpandedOnce ==
    \A i, j \in DOMAIN popped :
        i < j => Pos(nodes[popped[i]]) # Pos(nodes[popped[j]])

\* C12: the number of loop iterations of an astar call is at most four times
\* the number of grid cells.
C12_PopBound == Len(popped) <= 4 * GRID_SIZE * GRID_SIZE

\* Number of parent links from node i back to the node that has no parent
RECURSIVE ParentLinks(_, _)
ParentLinks(ns, i) ==
    IF ns[i].parent = 0 THEN 0 ELSE 1 + ParentLinks(ns, ns[i].parent)

\* The fields of every node created by the running or the last call
NodesSound ==
    \A i \in DOMAIN nodes :
        LET n == nodes[i]
        IN  /\ n.f = n.g + n.h
            /\ n.h = Manhattan(Pos(n), astar_end)
            /\ n.g = ParentLinks(nodes, i)
            /\ n.parent = 0 => i = 1 /\ n.g = 0 /\ Pos(n) = astar_start
            /\ n.parent # 0 =>
                   /\ n.parent \in 1 .. i - 1
                   /\ n.g = nodes[n.parent].g + 1
            /\ i \in Range(open_set) \/ i \in Range(popped)

\* C13: every node of a search has f = g + h, h the Manhattan distance to the
\* end and g the number of parent links back to the start node (g = 0 and no
\* parent for the start node, parent's g plus one otherwise), and no step of
\* the loop changes a node that was already created.
C13_NodeFields ==
    /\ []NodesSound
    /\ [][pc = "loop" =>
             /\ Len(nodes') >= Len(nodes)
             /\ \A i \in DOMAIN nodes : nodes'[i] = nodes[i]]_vars

\* A running search with a node three links from the start in the frontier
\* and a parent that was popped
C13_Witness ==
    /\ pc = "loop"
    /\ \E i \in Range(open_set) :
           /\ nodes[i].g >= 3
           /\ nodes[i].parent \in Range(popped)
           /\ nodes[i].h >= 1

\* C14: every node pushed by an expansion is, when it is pushed, for an
\* orthogonal neighbour of the popped node that is inside the grid, not an
\* obstacle and not in the closed set, so no frontier entry is created for a
\* coordinate that is already closed (a coordinate not yet closed may be
\* pushed more than once).
C14_PushedNodes ==
    [][(pc = "loop" /\ pc' = "loop") =>
          \A k \in Len(nodes) + 1 .. Len(nodes') :
              /\ nodes'[k].parent = Last(popped')
              /\ OrthoStep(Pos(nodes'[k]), Pos(nodes[Last(popped')]))
              /\ Pos(nodes'[k]) \in Cells(GRID_SIZE)
              /\ Pos(nodes'[k]) \notin obstacles
              /\ Pos(nodes'[k]) \notin closed_set'
              /\ k \in Range(open_set')]_vars

\* An expansion has pushed nodes beside an obstacle and the border while other
\* coordinates were closed, and one unclosed coordinate is twice in the
\* frontier
C14_Witness ==
    /\ pc = "loop"
    /\ obstacles # {}
    /\ Cardinality(closed_set) >= 3
    /\ \E i, j \in Range(open_set) :
           /\ i < j
           /\ Pos(nodes[i]) = Pos(nodes[j])
           /\ Pos(nodes[i]) \notin closed_set
           /\ nodes[j].parent = Last(popped)

\* The i-th pop is the first pop of its coordinate
FirstPop(i) == \A j \in 1 .. i - 1 : Pos(nodes[popped[j]]) # Pos(nodes[popped[i]])

\* C15: when a coordinate is closed for the first time, the g of the popped
\* node is the length of a shortest obstacle-free route from the start to it.
C15_ClosedAtShortest ==
    \A i \in DOMAIN popped :
        FirstPop(i) =>
            nodes[popped[i]].g = Distance(astar_start, Pos(nodes[popped[i]]))

\* A coordinate was closed whose shortest route from the start bends around
\* an obstacle, after the frontier held two entries for some coordinate
C15_Witness ==
    /\ Duplicates
    /\ \E i \in DOMAIN popped :
           /\ FirstPop(i)
           /\ Pos(nodes[popped[i]]) \in closed_set
           /\ nodes[popped[i]].g > Manhattan(astar_start, Pos(nodes[popped[i]]))

\* C16: within one astar call the f values of the nodes popped one after
\* the other never decrease.
C16_PoppedFMonotone ==
    \A i \in 1 .. Len(popped) - 1 :
        nodes[popped[i]].f <= nodes[popped[i + 1]].f

\* A call has popped nodes of two different f values, among them two nodes
\* of one coordinate
C16_Witness ==
    /\ Len(popped) >= 4
    /\ nodes[popped[1]].f < nodes[Last(popped)].f
    /\ \E i, j \in DOMAIN popped :
           i < j /\ Pos(nodes[popped[i]]) = Pos(nodes[popped[j]])

\* start and end are None and there is no obstacle
GridReset == start = NoPoint /\ end = NoPoint /\ obstacles = {}

\* C17: when SPACE is pressed with start and end set and astar returns None,
\* then right after it start and end are None, there is no obstacle and the
\* stored path is None; right after R is pressed the same holds, whatever the
\* state was.
C17_NoPathResets ==
    /\ (event = "search" /\ path = None) => GridReset
    /\ event = "reset" => GridReset /\ path = None

\* SPACE was just handled, astar was called and returned None, and the grid
\* is reset
C17_Witness == event = "search" /\ path = None /\ GridReset

\* start and end, where set, are free cells of the grid
PointsValid ==
    /\ start # NoPoint => start \in Cells(GRID_SIZE) \ obstacles
    /\ end # NoPoint => end \in Cells(GRID_SIZE) \ obstacles

\* C18: in every state the clicks and the SPACE and R keys lead to, start and
\* end are not obstacles, every obstacle is inside the grid and start differs
\* from end when both are set; so each astar call of the main loop is made
\* with a start and an end that are inside the grid and not blocked.
C18_GridValid ==
    /\ [](/\ PointsValid
          /\ obstacles \subseteq Cells(GRID_SIZE)
          /\ (start # NoPoint /\ end # NoPoint) => start # end)
    /\ [][event' = "search" =>
             /\ start \in Cells(GRID_SIZE) \ obstacles
             /\ end \in Cells(GRID_SIZE) \ obstacles
             /\ start # end]_vars

\* SPACE was just handled: astar was called on a grid with an obstacle and
\* returned a path with a bend
C18_Witness ==
    /\ event = "search"
    /\ path.found
    /\ obstacles # {}
    /\ Len(path.coords) >= 3

\* C19: whenever a path is stored, it begins at the current start, ends at
\* the current end and holds no coordinate that is an obstacle now.
C19_PathMatchesGrid ==
    path.found =>
        /\ path.coords[1] = start
        /\ Last(path.coords) = end
        /\ \A i \in DOMAIN path.coords : path.coords[i] \notin obstacles

====
